---- MODULE Spec2Model ----
(***************************************************************************)
(* Model of backend/main.py: the Excel voice interview service.            *)
(*                                                                         *)
(* State: the in-process session map (sessions_memory), the Firestore      *)
(* collection voice_interview_sessions, the Python dict objects the        *)
(* handlers hold (heap), the submit_answer coroutines suspended at         *)
(* `await audio.read()` (pending) and the last HTTP response (last).       *)
(* Firestore reads and writes may raise; main.py catches and logs that.    *)
(* The gateways (Gemini transcription, Gemini scoring, TTS) are external:  *)
(* every reply they can give is an input drawn with \E.                    *)
(***************************************************************************)
EXTENDS Integers, Sequences, FiniteSets, TLC

\* ------------------------------------------------------------------ bounds
MaxSessions == 2       \* sessions that are started in one behaviour
MaxInFlight == 2       \* requests a client keeps in flight on one session

SessionIds == 1..MaxSessions
ObjIds == 1..(MaxInFlight + 1)

\* ------------------------------------------------------------ question bank
QUESTIONS ==
  << [id |-> 1, question |-> "VLOOKUP", category |-> "Lookup Functions", difficulty |-> "Intermediate"],
     [id |-> 2, question |-> "Absolute and Relative references", category |-> "Cell References", difficulty |-> "Basic"],
     [id |-> 3, question |-> "Pivot Table", category |-> "Data Analysis", difficulty |-> "Intermediate"],
     [id |-> 4, question |-> "Duplicate values", category |-> "Data Management", difficulty |-> "Basic"],
     [id |-> 5, question |-> "Average excluding blanks and zeros", category |-> "Formulas", difficulty |-> "Intermediate"] >>

\* question_id values a client sends: inside and just outside 1..len(QUESTIONS)
QuestionIds == 0..(Len(QUESTIONS) + 1)

\* ------------------------------------------------------------------ values
\* Python None, as the value of a session field or of a parsed JSON `null`
None == [json |-> "null"]
\* a dict key that is missing, a session object slot that is free
NoObj == [free |-> TRUE]
NoDoc == [exists |-> FALSE]

ReportKeys == {"summary", "overall_score", "strengths", "weaknesses", "recommendation", "detailed_feedback"}

\* a JSON object the scoring model returns; a field not in keys is missing;
\* overall_score is a JSON number unless score_json says "string" ("4")
Report(keys, summary, score, feedback) ==
  [json |-> "object", keys |-> keys, summary |-> summary, overall_score |-> score,
   score_json |-> "number",          \* the JSON type of overall_score
   strengths |-> "strengths", weaknesses |-> "weaknesses",
   recommendation |-> "recommendation", detailed_feedback |-> feedback]

Scores(n, v) == [i \in 1..n |-> v]

\* the texts the scoring model answers with
ModelTexts ==
  { [json |-> "invalid"],                       \* not JSON: json.loads raises
    None,                                       \* the text `null`
    Report(ReportKeys, "good", 4, Scores(Len(QUESTIONS), 4)),
    Report(ReportKeys, "poor", 2, Scores(Len(QUESTIONS), 2)),
    \* an object without the key overall_score
    Report(ReportKeys \ {"overall_score"}, "good", 0, Scores(Len(QUESTIONS), 4)),
    \* an object whose overall_score is the JSON string "4"
    [ Report(ReportKeys, "good", 4, Scores(Len(QUESTIONS), 4)) EXCEPT !.score_json = "string" ],
    \* an object off the 0-5 scale and one entry short
    Report(ReportKeys, "good", 7, Scores(Len(QUESTIONS) - 1, 4)) }

\* what gemini_generate_content gives evaluate_interview
GeminiReplies ==
  { [kind |-> "http_error"], [kind |-> "no_candidates"] }
  \cup { [kind |-> "text", text |-> t] : t \in ModelTexts }

\* ----------------------------------------------------------------- state
VARIABLES
  db,               \* TRUE iff init_firestore returned a client
  flaky,            \* TRUE iff Firestore calls can raise in this run
  clients,          \* interviews that are started in this run
  concurrency,      \* requests a client keeps in flight on its session
  heap,             \* heap[s][o]: the session dict object o of session s
  sessions_memory,  \* sessions_memory[s]: the object stored under s, 0 if no key
  firestore,        \* firestore[s]: the document of session s, or NoDoc
  pending,          \* pending[s]: submit_answer calls suspended at the await
  acked,            \* acked[s]: highest question whose submit was answered 200
  last              \* the last response a handler produced

env == <<db, flaky, clients, concurrency>>

vars == <<env, heap, sessions_memory, firestore, pending, acked, last>>

\* -------------------------------------------------------- session helpers
\* NewSession that starts the interview in awaiting_feedback
NewSessionAwaiting(session_id, candidate_name) ==
  [ session_id |-> session_id,
    candidate_name |-> candidate_name,
    started_at |-> "t",
    finished_at |-> "null",
    current_question |-> 0,
    questions |-> << >>,
    evaluation |-> None,
    status |-> "awaiting_feedback" ]

\* session = {...} of start_interview
NewSession(session_id, candidate_name) ==
  [ session_id |-> session_id,
    candidate_name |-> candidate_name,
    started_at |-> "t",
    finished_at |-> "null",
    current_question |-> 0,
    questions |-> << >>,
    evaluation |-> None,
    status |-> "in_progress" ]

\* the record stored in memory under s (NoObj when the key is missing)
Memory(s) == IF sessions_memory[s] = 0 THEN NoObj ELSE heap[s][sessions_memory[s]]

Min(S) == CHOOSE x \in S : \A y \in S : x <= y

\* objects of session s a handler or the session map still refers to
Referenced(s, mem, pend) ==
  (IF mem = 0 THEN {} ELSE {mem}) \cup { pend[i].ref : i \in 1..Len(pend) }

FreeObj(s) == Min({ o \in ObjIds : heap[s][o] = NoObj })

\* drop the objects nothing refers to any more (Python reference counting)
Collect(s, h, mem, pend) ==
  [ o \in ObjIds |-> IF o \in Referenced(s, mem, pend) THEN h[o] ELSE NoObj ]

\* Firestore set(data, merge=True) on the evaluation field: nested map
\* fields are merged leaf by leaf, anything else replaces the stored value
MergeEvaluation(old, new) ==
  IF new.json = "object" /\ old.json = "object"
  THEN [ json |-> "object",
         keys |-> old.keys \cup new.keys,
         summary |-> IF "summary" \in new.keys THEN new.summary ELSE old.summary,
         overall_score |-> IF "overall_score" \in new.keys THEN new.overall_score ELSE old.overall_score,
         score_json |-> IF "overall_score" \in new.keys THEN new.score_json ELSE old.score_json,
         strengths |-> new.strengths,
         weaknesses |-> new.weaknesses,
         recommendation |-> new.recommendation,
         detailed_feedback |-> IF "detailed_feedback" \in new.keys
                               THEN new.detailed_feedback ELSE old.detailed_feedback ]
  ELSE new

\* save_session_to_firestore(session_id, session_data): the document after
\* the call; ok = FALSE is a set() that raised (caught and printed)
SaveSessionToFirestore(doc, session_data, ok) ==
  IF ~db \/ ~ok THEN doc
  ELSE IF doc = NoDoc THEN session_data
  ELSE [ session_data EXCEPT !.evaluation = MergeEvaluation(doc.evaluation, session_data.evaluation) ]

\* load_session_from_firestore(session_id): the dict or NoDoc for None;
\* ok = FALSE is a get() that raised (caught and printed)
LoadSessionFromFirestore(s, ok) ==
  IF db /\ ok THEN firestore[s] ELSE NoDoc

\* get_session(session_id): where the handler's session dict comes from
\*   "firestore": a fresh dict from doc.to_dict()
\*   "memory":    the very object stored in sessions_memory
\*   "none":      None
GetSessionSource(s, ok) ==
  IF LoadSessionFromFirestore(s, ok) # NoDoc THEN "firestore"
  ELSE IF sessions_memory[s] # 0 THEN "memory"
  ELSE "none"

GetSession(s, ok) ==
  IF GetSessionSource(s, ok) = "firestore" THEN LoadSessionFromFirestore(s, ok)
  ELSE IF GetSessionSource(s, ok) = "memory" THEN Memory(s)
  ELSE NoObj

\* ------------------------------------------------------------- responses
NoReport == [json |-> "none"]

Response(op, s, q, code, detail) ==
  [ op |-> op, session_id |-> s, question_id |-> q, code |-> code, detail |-> detail,
    gateway |-> "none",        \* the gateway the handler called
    cursor |-> -1,             \* current_question of the session it loaded
    answers |-> -1,            \* len(questions) of the session it loaded
    status |-> "",             \* status of the session it loaded
    source |-> "none",         \* where get_session found the session
    finished |-> FALSE, next_question |-> 0, progress |-> 0,
    next_number |-> 0,         \* "number" of the question handed out
    prompt |-> << >>,          \* the Q/A pairs sent to the Scoring Gateway
    report |-> NoReport, reply |-> NoReport ]

Loaded(r, session, source) ==
  [ r EXCEPT !.source = source,
             !.cursor = session.current_question,
             !.answers = Len(session.questions),
             !.status = session.status ]

\* ------------------------------------------------------------------ Init
\* outcomes of one Firestore call: TRUE it returns, FALSE it raises
FirestoreOutcomes == IF db /\ flaky THEN BOOLEAN ELSE {TRUE}

InitCommon ==
  /\ db \in BOOLEAN
  /\ heap = [s \in SessionIds |-> [o \in ObjIds |-> NoObj]]
  /\ sessions_memory = [s \in SessionIds |-> 0]
  /\ firestore = [s \in SessionIds |-> NoDoc]
  /\ pending = [s \in SessionIds |-> << >>]
  /\ acked = [s \in SessionIds |-> 0]
  /\ last = Response("none", 0, 0, 0, "")

\* one interview, one request at a time, Firestore calls may raise
Init == InitCommon /\ flaky \in BOOLEAN /\ clients = 1 /\ concurrency = 1

\* -------------------------------------------------------------- actions
Started(s) == sessions_memory[s] # 0

\* a new request on session s is admitted while the client has a free slot
Admitted(s) == Len(pending[s]) < concurrency

\* StartInterview that rebinds the session map to a dict holding only the
\* new session
StartInterviewClearsStore(s, writeOk, ttsOk) ==
  /\ sessions_memory[s] = 0
  /\ s <= clients
  /\ \A t \in SessionIds : t < s => sessions_memory[t] # 0
  /\ heap' = [heap EXCEPT ![s][1] = NewSession(s, "Jane")]
  /\ sessions_memory' = [t \in SessionIds |-> IF t = s THEN 1 ELSE 0]
  /\ firestore' = [firestore EXCEPT ![s] = SaveSessionToFirestore(@, NewSession(s, "Jane"), writeOk)]
  /\ last' = IF ttsOk
             THEN [ Response("start", s, 0, 200, "") EXCEPT
                      !.gateway = "tts", !.next_question = QUESTIONS[1].id,
                      !.next_number = 1, !.progress = Len(QUESTIONS) ]
             ELSE [ Response("start", s, 0, 500, "Speech synthesis failed") EXCEPT
                      !.gateway = "tts" ]
  /\ UNCHANGED <<env, pending, acked>>

\* POST /interview/start: the session is stored before the introduction
\* audio is synthesized, so it exists also when synthesize_speech raises
StartInterview(s, writeOk, ttsOk) ==
  /\ ~Started(s)
  /\ s <= clients
  /\ \A t \in SessionIds : t < s => Started(t)      \* uuid4: a fresh id
  /\ heap' = [heap EXCEPT ![s][1] = NewSession(s, "Jane")]
  /\ sessions_memory' = [sessions_memory EXCEPT ![s] = 1]
  /\ firestore' = [firestore EXCEPT ![s] = SaveSessionToFirestore(@, NewSession(s, "Jane"), writeOk)]
  /\ last' = IF ttsOk
             THEN [ Response("start", s, 0, 200, "") EXCEPT
                      !.gateway = "tts", !.next_question = QUESTIONS[1].id,
                      !.next_number = 1, !.progress = Len(QUESTIONS) ]
             ELSE [ Response("start", s, 0, 500, "Speech synthesis failed") EXCEPT
                      !.gateway = "tts" ]
  /\ UNCHANGED <<env, pending, acked>>

\* the texts the transcription model returns
Transcripts == {"answer"}

\* RecordAnswer that compares the cursor with > instead of >=
RecordAnswerLateFinish(session, idx, transcript) ==
  LET question == QUESTIONS[idx + 1]
      qa_pair == [ question_id |-> question.id,
                   question_text |-> question.question,
                   category |-> question.category,
                   difficulty |-> question.difficulty,
                   answer_transcript |-> transcript ]
      current_question == session.current_question + 1
      finished == current_question > Len(QUESTIONS)
  IN [ session EXCEPT !.questions = Append(@, qa_pair),
                      !.current_question = current_question,
                      !.status = IF finished THEN "awaiting_feedback" ELSE @ ]

\* RecordAnswer with the cursor increment left out
RecordAnswerNoAdvance(session, idx, transcript) ==
  LET question == QUESTIONS[idx + 1]
      qa_pair == [ question_id |-> question.id,
                   question_text |-> question.question,
                   category |-> question.category,
                   difficulty |-> question.difficulty,
                   answer_transcript |-> transcript ]
  IN [ session EXCEPT !.questions = Append(@, qa_pair) ]

\* submit_answer, from "Get question details" to "Check if finished": the
\* session dict after the handler has recorded the answer.  idx is the
\* current_question the handler read before the await
RecordAnswer(session, idx, transcript) ==
  LET question == QUESTIONS[idx + 1]
      qa_pair == [ question_id |-> question.id,
                   question_text |-> question.question,
                   category |-> question.category,
                   difficulty |-> question.difficulty,
                   answer_transcript |-> transcript ]
      current_question == session.current_question + 1
      finished == current_question >= Len(QUESTIONS)
  IN [ session EXCEPT !.questions = Append(@, qa_pair),
                      !.current_question = current_question,
                      !.status = IF finished THEN "awaiting_feedback" ELSE @ ]

\* submit_answer, the precondition checks in the order of the code:
\* the status code and detail of the HTTPException, 0 when all pass
SubmitCheck(session, question_id) ==
  IF session = NoObj THEN [code |-> 404, detail |-> "Session not found"]
  ELSE IF session.status # "in_progress"
       THEN [code |-> 400, detail |-> "Interview is not in progress"]
  ELSE IF question_id < 1 \/ question_id > Len(QUESTIONS)
       THEN [code |-> 400, detail |-> "Invalid question ID"]
  ELSE IF question_id # session.current_question + 1
       THEN [code |-> 400, detail |-> "Question ID mismatch"]
  ELSE [code |-> 0, detail |-> ""]

RemoveAt(seq, i) == SubSeq(seq, 1, i - 1) \o SubSeq(seq, i + 1, Len(seq))

\* POST /interview/submit-answer up to `await audio.read()`: either an
\* HTTPException, or the coroutine is suspended holding its session dict
SubmitAnswerBegin(s, question_id, readOk) ==
  LET source == GetSessionSource(s, readOk)
      session == GetSession(s, readOk)
      check == SubmitCheck(session, question_id)
      ref == IF source = "firestore" THEN FreeObj(s) ELSE sessions_memory[s]
  IN /\ Admitted(s)
     /\ IF check.code # 0
        THEN /\ last' = IF session = NoObj
                        THEN Response("submit_answer", s, question_id, check.code, check.detail)
                        ELSE Loaded(Response("submit_answer", s, question_id, check.code, check.detail), session, source)
             /\ UNCHANGED <<heap, pending>>
        ELSE /\ heap' = [heap EXCEPT ![s][ref] = session]
             /\ pending' = [pending EXCEPT ![s] =
                   Append(@, [ref |-> ref, source |-> source, idx |-> session.current_question,
                              question_id |-> question_id])]
             /\ last' = Loaded(Response("submit_answer", s, question_id, 0, "await audio.read"), session, source)
     /\ UNCHANGED <<env, sessions_memory, firestore, acked>>

\* SubmitAnswerResume with the session update placed ahead of the
\* transcription: the answer is recorded also when transcribe_audio raises
SubmitAnswerResumeRecordsFirst(s, i, transcribeOk, transcript, writeOk) ==
  /\ i \in 1..Len(pending[s])
  /\ LET req == pending[s][i]
         held == heap[s][req.ref]
         session == RecordAnswer(held, req.idx, transcript)
         finished == session.current_question >= Len(QUESTIONS)
         rest == RemoveAt(pending[s], i)
         base == [ Loaded(Response("submit_answer", s, req.question_id, 200, ""), held, req.source)
                     EXCEPT !.gateway = "transcription", !.cursor = req.idx ]
     IN /\ sessions_memory' = [sessions_memory EXCEPT ![s] = req.ref]
        /\ pending' = [pending EXCEPT ![s] = rest]
        /\ heap' = [heap EXCEPT ![s] = Collect(s, [@ EXCEPT ![req.ref] = session], req.ref, rest)]
        /\ firestore' = [firestore EXCEPT ![s] = SaveSessionToFirestore(@, session, writeOk)]
        /\ IF ~transcribeOk
           THEN /\ last' = [ base EXCEPT !.code = 500, !.detail = "Speech transcription failed" ]
                /\ UNCHANGED acked
           ELSE /\ acked' = [acked EXCEPT ![s] = IF req.question_id > @ THEN req.question_id ELSE @]
                /\ last' = [ base EXCEPT
                      !.finished = finished,
                      !.next_question = IF finished THEN 0 ELSE QUESTIONS[session.current_question + 1].id,
                      !.next_number = IF finished THEN 0 ELSE session.current_question + 1,
                      !.progress = req.idx + 1 ]
  /\ UNCHANGED env

\* submit_answer after the await: transcription, then the session update
SubmitAnswerResume(s, i, transcribeOk, transcript, writeOk) ==
  /\ i \in 1..Len(pending[s])
  /\ LET req == pending[s][i]
         held == heap[s][req.ref]
         session == RecordAnswer(held, req.idx, transcript)
         finished == session.current_question >= Len(QUESTIONS)
         rest == RemoveAt(pending[s], i)
         base == [ Loaded(Response("submit_answer", s, req.question_id, 200, ""), held, req.source)
                     EXCEPT !.gateway = "transcription", !.cursor = req.idx ]
     IN IF ~transcribeOk
        THEN /\ last' = [ base EXCEPT !.code = 500, !.detail = "Speech transcription failed" ]
             /\ pending' = [pending EXCEPT ![s] = rest]
             /\ heap' = [heap EXCEPT ![s] = Collect(s, @, sessions_memory[s], rest)]
             /\ UNCHANGED <<sessions_memory, firestore, acked>>
        ELSE /\ sessions_memory' = [sessions_memory EXCEPT ![s] = req.ref]
             /\ pending' = [pending EXCEPT ![s] = rest]
             /\ heap' = [heap EXCEPT ![s] = Collect(s, [@ EXCEPT ![req.ref] = session], req.ref, rest)]
             /\ firestore' = [firestore EXCEPT ![s] = SaveSessionToFirestore(@, session, writeOk)]
             /\ acked' = [acked EXCEPT ![s] = IF req.question_id > @ THEN req.question_id ELSE @]
             /\ last' = [ base EXCEPT
                   !.finished = finished,
                   !.next_question = IF finished THEN 0 ELSE QUESTIONS[session.current_question + 1].id,
                   !.next_number = IF finished THEN 0 ELSE session.current_question + 1,
                   !.progress = req.idx + 1 ]
  /\ UNCHANGED env

\* EvaluateCheck with the empty-answers check ahead of the status check
EvaluateCheckEmptyFirst(session) ==
  IF session = NoObj THEN [code |-> 404, detail |-> "Session not found"]
  ELSE IF session.questions = << >>
       THEN [code |-> 400, detail |-> "No answers to evaluate"]
  ELSE IF session.status # "awaiting_feedback"
       THEN [code |-> 400, detail |-> "Interview not ready for evaluation"]
  ELSE [code |-> 0, detail |-> ""]

\* evaluate_interview, the precondition checks in the order of the code
EvaluateCheck(session) ==
  IF session = NoObj THEN [code |-> 404, detail |-> "Session not found"]
  ELSE IF session.status # "awaiting_feedback"
       THEN [code |-> 400, detail |-> "Interview not ready for evaluation"]
  ELSE IF session.questions = << >>
       THEN [code |-> 400, detail |-> "No answers to evaluate"]
  ELSE [code |-> 0, detail |-> ""]

\* EvaluationPrompt that sends only the answer given last
EvaluationPromptLastOnly(session) ==
  LET n == Len(session.questions)
  IN << [ number |-> n,
          category |-> session.questions[n].category,
          difficulty |-> session.questions[n].difficulty,
          question_text |-> session.questions[n].question_text,
          answer_transcript |-> session.questions[n].answer_transcript ] >>

\* evaluate_interview, "Prepare evaluation prompt": qa_text has one block
\* per element of session["questions"], numbered from 1
EvaluationPrompt(session) ==
  [ i \in 1..Len(session.questions) |->
      [ number |-> i,
        category |-> session.questions[i].category,
        difficulty |-> session.questions[i].difficulty,
        question_text |-> session.questions[i].question_text,
        answer_transcript |-> session.questions[i].answer_transcript ] ]

\* evaluate_interview, the try block up to json.loads: TRUE iff it raises
\* before the session is touched (Gemini error, no candidates, no text,
\* text that is not JSON)
ParseRaises(reply) == reply.kind # "text" \/ reply.text.json = "invalid"

\* StoreEvaluation that stores a report of its own making in place of the payload
StoreEvaluationFallback(session, evaluation_json) ==
  [ session EXCEPT !.evaluation = IF evaluation_json.json = "object"
                                  THEN [ evaluation_json EXCEPT !.summary = "fallback" ]
                                  ELSE evaluation_json,
                   !.status = "completed",
                   !.finished_at = "t" ]

\* evaluate_interview, "Update session with evaluation"
StoreEvaluation(session, evaluation_json) ==
  [ session EXCEPT !.evaluation = evaluation_json,
                   !.status = "completed",
                   !.finished_at = "t" ]

\* EvaluationResponse(summary=evaluation_json["summary"], ...): TRUE iff
\* building the response raises (subscript of a non-dict, missing key)
ResponseRaises(evaluation_json) ==
  evaluation_json.json # "object" \/ ~(ReportKeys \subseteq evaluation_json.keys)

\* class EvaluationResponse(BaseModel), overall_score: float -- the model
\* built from the six subscripts; validation turns a numeric string into
\* the number it spells and leaves values of the declared type as they are
EvaluationResponse(evaluation_json) ==
  [ evaluation_json EXCEPT !.score_json = "number" ]

\* POST /interview/evaluate: no await in the handler, it runs in one step
EvaluateInterview(s, readOk, reply, writeOk) ==
  LET source == GetSessionSource(s, readOk)
      held == GetSession(s, readOk)
      check == EvaluateCheck(held)
      ref == IF source = "firestore" THEN FreeObj(s) ELSE sessions_memory[s]
      base == Response("evaluate", s, 0, check.code, check.detail)
  IN /\ Admitted(s)
     /\ IF check.code # 0
        THEN /\ last' = IF held = NoObj THEN base ELSE Loaded(base, held, source)
             /\ UNCHANGED <<heap, sessions_memory, firestore>>
        ELSE IF ParseRaises(reply)
        THEN /\ last' = [ Loaded(base, held, source) EXCEPT !.code = 500, !.detail = "Evaluation failed",
                                                    !.gateway = "scoring", !.reply = reply,
                                                    !.prompt = EvaluationPrompt(held) ]
             /\ UNCHANGED <<heap, sessions_memory, firestore>>
        ELSE LET session == StoreEvaluation(held, reply.text)
             IN /\ sessions_memory' = [sessions_memory EXCEPT ![s] = ref]
                /\ heap' = [heap EXCEPT ![s] = Collect(s, [@ EXCEPT ![ref] = session], ref, pending[s])]
                /\ firestore' = [firestore EXCEPT ![s] = SaveSessionToFirestore(@, session, writeOk)]
                /\ last' = IF ResponseRaises(reply.text)
                           THEN [ Loaded(base, held, source) EXCEPT !.code = 500, !.detail = "Evaluation failed",
                                                            !.gateway = "scoring", !.reply = reply,
                                                    !.prompt = EvaluationPrompt(held) ]
                           ELSE [ Loaded(base, held, source) EXCEPT !.code = 200, !.gateway = "scoring",
                                                            !.prompt = EvaluationPrompt(held),
                                                            !.reply = reply,
                                                            !.report = EvaluationResponse(reply.text) ]
     /\ UNCHANGED <<env, pending, acked>>

\* GET /interview/{session_id}/status
GetInterviewStatus(s, readOk) ==
  LET session == GetSession(s, readOk)
  IN /\ Admitted(s)
     /\ last' = IF session = NoObj
                THEN Response("status", s, 0, 404, "Session not found")
                ELSE [ Loaded(Response("status", s, 0, 200, ""), session, GetSessionSource(s, readOk))
                         EXCEPT !.progress = Len(QUESTIONS) ]
     /\ UNCHANGED <<env, heap, sessions_memory, firestore, pending, acked>>

\* GET /interview/{session_id}/transcript
GetInterviewTranscript(s, readOk) ==
  LET session == GetSession(s, readOk)
  IN /\ Admitted(s)
     /\ last' = IF session = NoObj
                THEN Response("transcript", s, 0, 404, "Session not found")
                ELSE [ Loaded(Response("transcript", s, 0, 200, ""), session, GetSessionSource(s, readOk))
                         EXCEPT !.report = session.evaluation ]
     /\ UNCHANGED <<env, heap, sessions_memory, firestore, pending, acked>>

Next ==
  \/ \E s \in SessionIds, writeOk \in FirestoreOutcomes, ttsOk \in BOOLEAN :
        StartInterview(s, writeOk, ttsOk)
  \/ \E s \in SessionIds, q \in QuestionIds, readOk \in FirestoreOutcomes :
        SubmitAnswerBegin(s, q, readOk)
  \/ \E s \in SessionIds, i \in 1..MaxInFlight, transcribeOk \in BOOLEAN,
        t \in Transcripts, writeOk \in FirestoreOutcomes :
        SubmitAnswerResume(s, i, transcribeOk, t, writeOk)
  \/ \E s \in SessionIds, readOk \in FirestoreOutcomes, reply \in GeminiReplies,
        writeOk \in FirestoreOutcomes :
        EvaluateInterview(s, readOk, reply, writeOk)
  \/ \E s \in SessionIds, readOk \in FirestoreOutcomes : GetInterviewStatus(s, readOk)
  \/ \E s \in SessionIds, readOk \in FirestoreOutcomes : GetInterviewTranscript(s, readOk)

Spec == Init /\ [][Next]_vars

\* one interview whose client overlaps requests; Firestore calls return
InitRace == InitCommon /\ flaky = FALSE /\ clients = 1 /\ concurrency = MaxInFlight

SpecRace == InitRace /\ [][Next]_vars

\* several interviews side by side, one request at a time on each;
\* Firestore calls return
InitSessions == InitCommon /\ flaky = FALSE /\ clients = MaxSessions /\ concurrency = 1

SpecSessions == InitSessions /\ [][Next]_vars

\* ------------------------------------------------- the well-behaved client
\* one interview, one request at a time, Firestore calls return; the client
\* submits the question at the cursor and, once the bank is exhausted, calls
\* evaluate_interview, repeating a request that failed
InitClient == InitCommon /\ flaky = FALSE /\ clients = 1 /\ concurrency = 1

\* the client holds the session_id of s: the session exists and
\* start_interview did not answer with an error (the id is in the 200 body)
KnowsSession(s) ==
  Started(s) /\ ~(last.op = "start" /\ last.session_id = s /\ last.code # 200)

ClientStart(s) ==
  \E writeOk \in FirestoreOutcomes, ttsOk \in BOOLEAN : StartInterview(s, writeOk, ttsOk)

ClientSubmit(s) ==
  /\ KnowsSession(s)
  /\ Memory(s).current_question < Len(QUESTIONS)
  /\ \E readOk \in FirestoreOutcomes :
       SubmitAnswerBegin(s, Memory(s).current_question + 1, readOk)

\* the event loop resumes the handler suspended at `await audio.read()`
ClientResume(s) ==
  \E transcribeOk \in BOOLEAN, t \in Transcripts, writeOk \in FirestoreOutcomes :
     SubmitAnswerResume(s, 1, transcribeOk, t, writeOk)

\* the resumed handler's call of transcribe_audio returns a transcript
TranscriptionSucceeds(s) ==
  \E t \in Transcripts, writeOk \in FirestoreOutcomes :
     SubmitAnswerResume(s, 1, TRUE, t, writeOk)

ClientEvaluate(s) ==
  /\ KnowsSession(s)
  /\ Memory(s).current_question >= Len(QUESTIONS)
  /\ \E readOk \in FirestoreOutcomes, reply \in GeminiReplies, writeOk \in FirestoreOutcomes :
       EvaluateInterview(s, readOk, reply, writeOk)

\* the handler's call of gemini_generate_content returns a report with
\* every key
ScoringSucceeds(s) ==
  \E readOk \in FirestoreOutcomes, writeOk \in FirestoreOutcomes :
    \E reply \in { r \in GeminiReplies : ~ParseRaises(r) /\ ~ResponseRaises(r.text) } :
       /\ EvaluateInterview(s, readOk, reply, writeOk)
       /\ last'.gateway = "scoring"

\* between its requests the client may look at the status and the transcript
ClientStatus(s) ==
  KnowsSession(s) /\ \E readOk \in FirestoreOutcomes : GetInterviewStatus(s, readOk)

ClientTranscript(s) ==
  KnowsSession(s) /\ \E readOk \in FirestoreOutcomes : GetInterviewTranscript(s, readOk)

NextClient ==
  \/ \E s \in SessionIds : ClientStart(s)
  \/ \E s \in SessionIds : ClientSubmit(s)
  \/ \E s \in SessionIds : ClientResume(s)
  \/ \E s \in SessionIds : ClientEvaluate(s)
  \/ \E s \in SessionIds : ClientStatus(s)
  \/ \E s \in SessionIds : ClientTranscript(s)

\* the client and the event loop keep going; a gateway that is called again
\* and again eventually answers well
FairClient ==
  \A s \in SessionIds :
    /\ WF_vars(ClientSubmit(s))
    /\ WF_vars(ClientResume(s))
    /\ WF_vars(ClientEvaluate(s))
    /\ SF_vars(TranscriptionSucceeds(s))
    /\ SF_vars(ScoringSucceeds(s))

SpecClient == InitClient /\ [][NextClient]_vars /\ FairClient

\* ------------------------------------------------------------ properties
\* every dict of session s that exists: the heap objects and the document
Copies(s) ==
  { heap[s][o] : o \in { x \in ObjIds : heap[s][x] # NoObj } }
  \cup (IF firestore[s] = NoDoc THEN {} ELSE {firestore[s]})

\* the step just taken was the first half of a submit_answer call on s
SubmitArrived(s) ==
  /\ last.op = "submit_answer" /\ last.session_id = s /\ last.gateway = "none"

\* the step just taken answered a submit_answer call on s with 200
SubmitAccepted(s) ==
  /\ last.op = "submit_answer" /\ last.session_id = s /\ last.code = 200

Rank(status) ==
  IF status = "in_progress" THEN 0 ELSE IF status = "awaiting_feedback" THEN 1 ELSE 2

\* C1: in every reachable state every copy of every session (the dict in
\* sessions_memory, the dicts held by handlers, the Firestore document) has
\* as many recorded answers as its cursor says:
\* len(questions) = current_question
C1_AnswersEqualCursor ==
  \A s \in SessionIds : \A r \in Copies(s) : Len(r.questions) = r.current_question

\* C1 witness: a finished and evaluated interview, all answers recorded
C1_Witness ==
  \E s \in SessionIds :
    /\ Started(s)
    /\ Memory(s).status = "completed"
    /\ Memory(s).current_question = Len(QUESTIONS)
    /\ Len(Memory(s).questions) = Len(QUESTIONS)

\* C2 as claimed: with one request at a time, the cursor of a session never
\* decreases, stays within 0..len(QUESTIONS), and every accepted
\* submit_answer increases it by exactly 1
C2_CursorMonotone ==
  [][ \A s \in SessionIds : Started(s) =>
        /\ Memory(s)'.current_question >= Memory(s).current_question
        /\ Memory(s)'.current_question \in 0..Len(QUESTIONS)
        /\ SubmitAccepted(s)' =>
             Memory(s)'.current_question = Memory(s).current_question + 1 ]_vars

\* C3 as claimed: a submit_answer whose question_id is not the session's
\* current_question + 1 is rejected with 400 and changes nothing
C3_OutOfOrderRejected ==
  [][ \A s \in SessionIds :
        ( /\ Started(s)
          /\ SubmitArrived(s)'
          /\ last'.question_id # Memory(s).current_question + 1 )
        => /\ last'.code = 400
           /\ UNCHANGED <<heap, sessions_memory, firestore, pending>> ]_vars

\* C4 as claimed: a session starts in_progress, its status never moves
\* back, never skips awaiting_feedback, and completed is final
C4_StatusForward ==
  [][ \A s \in SessionIds :
        /\ (~Started(s) /\ Started(s)') => Memory(s)'.status = "in_progress"
        /\ Started(s) =>
             /\ Rank(Memory(s)'.status) >= Rank(Memory(s).status)
             /\ Rank(Memory(s)'.status) <= Rank(Memory(s).status) + 1 ]_vars

\* C5 as claimed: the stored evaluation is non-null exactly when the status
\* is completed, and once written it is not written again
C5_EvaluationIffCompleted ==
  [][ \A s \in SessionIds : Started(s)' =>
        /\ (Memory(s)'.evaluation # None) <=> (Memory(s)'.status = "completed")
        /\ (Started(s) /\ Memory(s).evaluation # None) =>
              Memory(s)'.evaluation = Memory(s).evaluation ]_vars

\* the Scoring Gateway was unreachable, or its output is not JSON, or it is
\* JSON that lacks a key of the report
Malformed(reply) ==
  \/ reply.kind # "text"
  \/ reply.text.json # "object"
  \/ ~(ReportKeys \subseteq reply.text.keys)

\* C6 as claimed: when the Scoring Gateway fails or answers with a malformed
\* report, evaluate_interview answers with an error and the session stays
\* awaiting_feedback with no evaluation and no finished_at
C6_FailedEvaluationKeepsSession ==
  \A s \in SessionIds :
    ( /\ last.op = "evaluate" /\ last.session_id = s
      /\ last.gateway = "scoring"
      /\ Malformed(last.reply) )
    => /\ last.code = 500
       /\ Memory(s).status = "awaiting_feedback"
       /\ Memory(s).evaluation = None
       /\ Memory(s).finished_at = "null"

\* C7 as claimed: on a completed session evaluate_interview answers 400
\* without calling the Scoring Gateway, and the stored evaluation, status
\* and finished_at stay as they are
C7_EvaluateIdempotent ==
  [][ \A s \in SessionIds :
        (Started(s) /\ Memory(s).status = "completed") =>
          /\ Memory(s)'.evaluation = Memory(s).evaluation
          /\ Memory(s)'.status = Memory(s).status
          /\ Memory(s)'.finished_at = Memory(s).finished_at
          /\ (last'.op = "evaluate" /\ last'.session_id = s) =>
               (last'.code = 400 /\ last'.gateway = "none") ]_vars

\* C8 as claimed: when submit_answer calls on one session overlap, the k-th
\* record is for question k, the cursor counts the records and stays within
\* the bank, and every accepted call adds its record (no lost update)
C8_NoLostUpdate ==
  [][ \A s \in SessionIds : Started(s) =>
        /\ \A k \in 1..Len(Memory(s)'.questions) :
              Memory(s)'.questions[k].question_id = k
        /\ Memory(s)'.current_question = Len(Memory(s)'.questions)
        /\ Memory(s)'.current_question <= Len(QUESTIONS)
        /\ SubmitAccepted(s)' =>
              Len(Memory(s)'.questions) = Len(Memory(s).questions) + 1 ]_vars

\* C9 as claimed: whatever Firestore writes failed before, once a Firestore
\* read succeeds the submit_answer for the question after the last accepted
\* one is not rejected, and status never reports a cursor below the
\* progress the client was already told
C9_DurableFailureHarmless ==
  \A s \in SessionIds : Started(s) =>
    /\ ( /\ SubmitArrived(s)
         /\ last.source = "firestore"
         /\ last.question_id = acked[s] + 1
         /\ last.question_id <= Len(QUESTIONS) )
       => last.code = 0
    /\ ( last.op = "status" /\ last.session_id = s /\ last.code = 200 )
       => last.cursor >= acked[s]

C11_SubmitPreconditions ==
  [][ \A s \in SessionIds : SubmitArrived(s)' =>
        /\ ~Started(s) =>
             (last'.code = 404 /\ UNCHANGED <<heap, sessions_memory, firestore, pending>>)
        /\ (Started(s) /\ Memory(s).status # "in_progress") =>
             (last'.code = 400 /\ UNCHANGED <<heap, sessions_memory, firestore, pending>>) ]_vars

\* the step just taken answered a submit_answer call on s with the 500 of
\* a failed transcription
TranscriptionFailed(s) ==
  /\ last.op = "submit_answer" /\ last.session_id = s
  /\ last.gateway = "transcription" /\ last.code = 500

\* C12: when the Transcription Gateway fails during submit_answer the caller
\* gets 500 "Speech transcription failed", the session is the same as before
\* in memory and in Firestore (no record appended, cursor and status kept),
\* and the same question passes the checks when it is submitted again
C12_TranscriptionFailureKeepsSession ==
  [][ \A s \in SessionIds : TranscriptionFailed(s)' =>
        /\ last'.detail = "Speech transcription failed"
        /\ Memory(s)' = Memory(s)
        /\ firestore' = firestore
        /\ acked' = acked
        /\ \A ok \in FirestoreOutcomes, q \in QuestionIds :
             (q = last'.question_id /\ GetSessionSource(s, ok)' = last'.source) =>
                SubmitCheck(GetSession(s, ok), q).code' = 0 ]_vars

\* C12 witness: a transcription failed on a session that already holds an
\* answer and is still in progress
C12_Witness ==
  \E s \in SessionIds :
    /\ TranscriptionFailed(s)
    /\ Started(s)
    /\ Memory(s).current_question >= 1
    /\ Memory(s).status = "in_progress"

QaPairKeys == {"question_id", "question_text", "category", "difficulty", "answer_transcript"}

\* C13: batch scoring. submit_answer never calls the Scoring Gateway and
\* stores no per-question evaluation; the Scoring Gateway is called only by
\* evaluate_interview, by every call that passes the precondition checks and
\* by no call that is rejected (400, 404), and the request has one block per
\* recorded answer, in order
C13_BatchScoring ==
  /\ last.gateway = "scoring" => last.op = "evaluate"
  /\ last.op = "evaluate" => ((last.gateway = "scoring") <=> (last.code \notin {400, 404}))
  /\ last.op = "evaluate" /\ last.gateway = "scoring" =>
       /\ Len(last.prompt) = last.answers
       /\ \A i \in 1..Len(last.prompt) :
            /\ last.prompt[i].number = i
            /\ \E r \in Copies(last.session_id) :
                 /\ Len(r.questions) = last.answers
                 /\ last.prompt[i].question_text = r.questions[i].question_text
                 /\ last.prompt[i].answer_transcript = r.questions[i].answer_transcript
  /\ \A s \in SessionIds : \A r \in Copies(s) : \A k \in 1..Len(r.questions) :
       DOMAIN r.questions[k] = QaPairKeys

\* C13 witness: an evaluate_interview call reached the Scoring Gateway with
\* the answers to all the questions of the bank
C13_Witness ==
  /\ last.op = "evaluate" /\ last.gateway = "scoring"
  /\ Len(last.prompt) = Len(QUESTIONS)

\* C14 as claimed: a report that evaluate_interview returns with 200 has one
\* detailed_feedback entry per recorded answer and an overall_score within
\* 0..5, whatever the Scoring Gateway answered
C14_ReportWithinSchema ==
  ( last.op = "evaluate" /\ last.code = 200 ) =>
     /\ Len(last.report.detailed_feedback) = last.answers
     /\ last.report.overall_score \in 0..5

\* C15: sessions are isolated. A step that serves a request addressed to one
\* session (accepted or rejected) or that creates a session leaves every
\* other session as it was, in memory, in Firestore and in the handlers; and
\* no session is ever removed from memory or from Firestore
C15_SessionsIsolated ==
  [][ \A b \in SessionIds :
        /\ b # last'.session_id =>
             /\ heap'[b] = heap[b]
             /\ sessions_memory'[b] = sessions_memory[b]
             /\ firestore'[b] = firestore[b]
             /\ pending'[b] = pending[b]
             /\ acked'[b] = acked[b]
        /\ Started(b) => Started(b)'
        /\ firestore[b] # NoDoc => firestore'[b] # NoDoc ]_vars

\* C15 witness: two sessions exist, the second one has recorded an answer
\* and the first one has just had an answer accepted
C15_Witness ==
  /\ Started(1) /\ Started(2)
  /\ Memory(2).current_question >= 1
  /\ SubmitAccepted(1)
  /\ Memory(1).current_question # Memory(2).current_question

\* C16 as claimed: start_interview takes an id no session has, stores under
\* it a session with current_question 0, status in_progress, no answers and
\* no evaluation, in memory and (when configured) in Firestore, and returns
\* that id with the first question of the bank (id 1, number 1) and
\* total_questions = len(QUESTIONS)
C16_StartCreatesAndReturns ==
  [][ \A s \in SessionIds : (last'.op = "start" /\ last'.session_id = s) =>
        /\ ~Started(s)
        /\ Started(s)'
        /\ Memory(s)' = NewSession(s, "Jane")
        /\ Memory(s)'.current_question = 0
        /\ Memory(s)'.status = "in_progress"
        /\ Memory(s)'.questions = << >>
        /\ Memory(s)'.evaluation = None
        /\ db => firestore'[s] = Memory(s)'
        /\ last'.code = 200
        /\ last'.next_question = 1
        /\ last'.next_number = 1
        /\ last'.progress = Len(QUESTIONS) ]_vars

RECURSIVE SumScores(_)
SumScores(scores) ==
  IF scores = << >> THEN 0 ELSE Head(scores) + SumScores(Tail(scores))

\* C17 as claimed: when the Scoring Gateway's object has no overall_score,
\* evaluate_interview succeeds and reports the arithmetic mean of the
\* per-question scores, which lies within 0..5
C17_MeanWhenNoOverallScore ==
  ( /\ last.op = "evaluate" /\ last.gateway = "scoring"
    /\ last.reply.kind = "text"
    /\ last.reply.text.json = "object"
    /\ last.reply.text.keys = ReportKeys \ {"overall_score"} )
  => /\ last.code = 200
     /\ last.report.overall_score * Len(last.reply.text.detailed_feedback)
          = SumScores(last.reply.text.detailed_feedback)
     /\ last.report.overall_score \in 0..5

\* C18: an accepted submit_answer for question k of the N-question bank
\* answers finished = (k = N); for k < N it hands out bank question k+1
\* (id k+1, number k+1); for k = N it hands out no question and the session
\* is awaiting_feedback; progress names question k
C18_AdvanceResult ==
  \A s \in SessionIds : SubmitAccepted(s) =>
    LET k == last.question_id
        N == Len(QUESTIONS)
    IN /\ k \in 1..N
       /\ last.finished <=> (k = N)
       /\ last.progress = k
       /\ k < N => /\ last.next_question = QUESTIONS[k + 1].id
                   /\ last.next_question = k + 1
                   /\ last.next_number = k + 1
                   /\ Memory(s).status = "in_progress"
       /\ k = N => /\ last.next_question = 0
                   /\ last.next_number = 0
                   /\ Memory(s).status = "awaiting_feedback"

\* C18 witness: the last question of the bank was accepted
C18_Witness ==
  \E s \in SessionIds :
    /\ SubmitAccepted(s) /\ last.question_id = Len(QUESTIONS) /\ last.finished
    /\ Memory(s).status = "awaiting_feedback"

\* an evaluate_interview that answered 200
EvaluateSucceeded == last.op = "evaluate" /\ last.code = 200

\* the fields of the report that the response model copies unchanged
TextFields == {"summary", "strengths", "weaknesses", "recommendation", "detailed_feedback"}

\* C19 as claimed: a successful evaluate_interview called the Scoring
\* Gateway, stored exactly its parsed payload as the session's evaluation
\* and returned the six report fields equal to the payload's
C19_ReportEqualsPayload ==
  EvaluateSucceeded =>
    /\ last.gateway = "scoring" /\ last.reply.kind = "text"
    /\ last.reply.text.json = "object"
    /\ Memory(last.session_id).evaluation = last.reply.text
    /\ \A f \in TextFields : last.report[f] = last.reply.text[f]
    /\ last.report.overall_score = last.reply.text.overall_score
    /\ last.report.score_json = last.reply.text.score_json

\* C19 amended: a successful evaluate_interview called the Scoring Gateway,
\* stored exactly its parsed payload as the session's evaluation and
\* returned the six report fields of the payload, overall_score as the
\* number the payload's value spells (a numeric string comes back as a
\* number); no success report has another origin
C19_ReportFromPayload ==
  EvaluateSucceeded =>
    /\ last.gateway = "scoring" /\ last.reply.kind = "text"
    /\ last.reply.text.json = "object"
    /\ Memory(last.session_id).evaluation = last.reply.text
    /\ \A f \in TextFields : last.report[f] = last.reply.text[f]
    /\ last.report.overall_score = last.reply.text.overall_score
    /\ last.report.score_json = "number"

\* C19 witness: a successful evaluation of a payload with a string score
C19_Witness ==
  /\ EvaluateSucceeded
  /\ last.reply.text.score_json = "string"
  /\ Memory(last.session_id).status = "completed"

\* the i-th record is the answer to bank question i
InBankOrder(questions) ==
  /\ Len(questions) <= Len(QUESTIONS)
  /\ \A i \in 1..Len(questions) :
       /\ questions[i].question_id = i
       /\ questions[i].question_text = QUESTIONS[i].question
       /\ questions[i].category = QUESTIONS[i].category
       /\ questions[i].difficulty = QUESTIONS[i].difficulty

\* old is an initial part of new
IsPrefix(old, new) ==
  /\ Len(old) <= Len(new)
  /\ \A i \in 1..Len(old) : new[i] = old[i]

\* C20 as claimed: with one request at a time per session, every copy of a
\* session holds its answers in bank order (record i is bank question i),
\* and an accepted submit_answer or evaluate_interview keeps every earlier
\* record of the session as it was (the answer list only grows at its end)
C20_AnswersAppendOnly ==
  [][ \A s \in SessionIds :
        /\ \A c \in Copies(s)' : InBankOrder(c.questions)
        /\ ( /\ Started(s)
             /\ last'.session_id = s
             /\ last'.op \in {"submit_answer", "evaluate"}
             /\ last'.code = 200 )
           => IsPrefix(Memory(s).questions, Memory(s)'.questions) ]_vars

\* the step just taken was an evaluate_interview that passed its checks
EvaluatePassedChecks == last.op = "evaluate" /\ last.gateway = "scoring"

\* C21: with one request at a time per session, in every copy of a session
\* the status follows from the cursor: in_progress iff current_question <
\* len(QUESTIONS), awaiting_feedback or completed iff current_question =
\* len(QUESTIONS); an evaluate_interview passes its checks only on a session
\* with all bank questions answered, and none answers "No answers to evaluate"
C21_StatusFromCursor ==
  /\ \A s \in SessionIds : \A c \in Copies(s) :
       /\ c.status \in {"in_progress", "awaiting_feedback", "completed"}
       /\ c.status = "in_progress" <=> c.current_question < Len(QUESTIONS)
       /\ c.status \in {"awaiting_feedback", "completed"}
            <=> c.current_question = Len(QUESTIONS)
  /\ EvaluatePassedChecks =>
       /\ last.cursor = Len(QUESTIONS)
       /\ last.answers = Len(QUESTIONS)
  /\ last.detail # "No answers to evaluate"

\* C21 witness: an evaluate_interview passed its checks on a session whose
\* cursor is at the end of the bank, while a stale in_progress copy exists
C21_Witness ==
  /\ EvaluatePassedChecks
  /\ last.cursor = Len(QUESTIONS)
  /\ \E c \in Copies(last.session_id) : c.status = "in_progress"

\* start_interview answered 200 for session s
StartSucceeded(s) == last.op = "start" /\ last.session_id = s /\ last.code = 200

\* some request on session s would pass its handler's checks
SomeRequestAccepted(s) ==
  \/ \E q \in QuestionIds : SubmitCheck(GetSession(s, TRUE), q).code = 0
  \/ EvaluateCheck(GetSession(s, TRUE)).code = 0

\* C22 as claimed: for the client that submits the question at the cursor
\* and then evaluates, retrying after errors, with gateways that eventually
\* answer well, every started session eventually is completed and the client
\* eventually gets a successful evaluate_interview; a session becomes
\* completed only in a successful evaluate_interview after len(QUESTIONS)
\* accepted submits, no second evaluate_interview succeeds, and a session
\* that is not completed always has a request that would be accepted
C22_InterviewCompletes ==
  /\ \A s \in SessionIds :
       StartSucceeded(s) ~> (Started(s) /\ Memory(s).status = "completed")
  /\ \A s \in SessionIds :
       StartSucceeded(s) ~> (EvaluateSucceeded /\ last.session_id = s)
  /\ [][ \A s \in SessionIds : Started(s) =>
           /\ (Memory(s).status # "completed" /\ Memory(s)'.status = "completed")
                => /\ EvaluateSucceeded' /\ last'.session_id = s
                   /\ acked[s] = Len(QUESTIONS)
                   /\ Len(Memory(s).questions) = Len(QUESTIONS)
           /\ Memory(s).status = "completed"
                => ~(EvaluateSucceeded' /\ last'.session_id = s /\ last' # last) ]_vars
  /\ [](\A s \in SessionIds :
          (Started(s) /\ Memory(s).status # "completed") => SomeRequestAccepted(s))
====
